---- MODULE Spec2Model ----
(***************************************************************************)
(* The visa/occupation question bot: MainDialog (src/dialogs/mainDialog.js) *)
(* driving BookingDialog (src/dialogs/bookingDialog.js).                    *)
(*                                                                         *)
(* One action per waterfall step and one for MainDialog.run, which takes   *)
(* an inbound message.  A turn is the chain of steps from run up to the    *)
(* next suspension (an outstanding TextPrompt, or an uncaught exception).  *)
(***************************************************************************)
EXTENDS Integers, Sequences, FiniteSets

(***************************************************************************)
(* Bounds.                                                                 *)
(***************************************************************************)
\* Outbound activities recorded for one turn; a step that sends is disabled
\* once the turn has sent this many.
MaxSent ==
    4

(***************************************************************************)
(* JavaScript values.  k is the kind: "undef" (undefined), "str" (a string *)
(* s), "obj" (an object with the single own property p, whose value is the *)
(* string s; p = "" is the object without properties) and "ref" (the       *)
(* reference to the userinfo / bookingDetails object).                     *)
(***************************************************************************)
Undef ==
    [k |-> "undef", p |-> "", s |-> ""]

Str(t) ==
    [k |-> "str", p |-> "", s |-> t]

Obj(name, t) ==
    [k |-> "obj", p |-> name, s |-> t]

Ref ==
    [k |-> "ref", p |-> "", s |-> ""]

\* ToBoolean: undefined and the empty string are falsy, objects are truthy.
Truthy(x) ==
    CASE x.k = "undef" -> FALSE
      [] x.k = "str" -> x.s # ""
      [] OTHER -> TRUE

\* The property read x.name raises a TypeError exactly when x is undefined.
Throws(x) ==
    x.k = "undef"

\* x.name for a x that is not undefined: a string has no such property.
Get(x, name) ==
    IF x.k = "obj" /\ x.p = name /\ name # "" THEN Str(x.s) ELSE Undef

\* ToString, as applied by string concatenation.
ToString(x) ==
    CASE x.k = "undef" -> "undefined"
      [] x.k = "str" -> x.s
      [] OTHER -> "[object Object]"

\* x == 'literal' (abstract equality against a string literal).
LooseEq(x, t) ==
    CASE x.k = "undef" -> FALSE
      [] x.k = "str" -> x.s = t
      [] OTHER -> ToString(x) = t

(***************************************************************************)
(* Texts.  The typographic apostrophe of the CPT text and the backquotes   *)
(* of the NOTE text are written as ASCII apostrophes.                      *)
(***************************************************************************)
NoteText ==
    "NOTE: LUIS is not configured. To enable all capabilities, add 'LuisAppId', 'LuisAPIKey' and 'LuisAPIHostName' to the .env file."

GreetingText ==
    "Hi! What would you like to know about your visa and occupation status?"

RestartText ==
    "What else can I do for you?"

TodoText ==
    "TODO: get weather flow here"

SomethingWrongText ==
    "Something is wrong"

DidntUnderstandText(intent) ==
    "Sorry, I didn't get that. Please try asking in a different way (intent was " \o intent \o ")"

OnCampusText ==
    "On-campus employment must meet one of the following definitions: \nThe employment takes place on school premises and the employee (student) is paid by the university for the work. Examples include GSI/GSR positions or jobs at dining halls, campus libraries, etc. This is the most common type of on-campus employment. \nThe employment takes place at a commercial firm (e.g., bookstore, coffee shop) that is located on the university floor campus and provides services for students on campus. \nThe employment takes place at an off-campus location that is educationally affiliated with UC Berkeley. The affiliation must be associated with the school's established curriculum or related to contractually-funded research projects at the post-graduate level. The employment must be an integral part of the student's educational program."

CptText ==
    "Speak to a student advisor at your university to find out more about the CPT programs available at your institution, the eligibility requirements, and potential employers. If you're not yet an international student in the US consider going through a program like HTIR Work-Study.\nTake any college required CPT courses necessary to become an eligible candidate.\nObtain a job offer letter on official letterhead from your employer. Universities typically have a list of specific information this letter should include, like the address where work will take place.\nApply for the college-specific CPT program through your university. Note that authorization can take a few weeks, so plan ahead. Before beginning the application process make sure you have all requested documentation such as proof of class registration.\nYou will receive a document (physical or by email) approving your application and outlining your CPT start and end date. Print, sign and make a copy of this document where required.\nTalk to your employer and send relevant documentation where required.\nStart the CPT program with your employer on the outlined start date."

OptText ==
    "Confirm your 12-month OPT information is correct\nComplete and submit your STEM OPT Extension I-20 Request to ISS \nPick up New I-20 and prepare your application\nMail your application to USCIS."

ComingSoonText(visa_type) ==
    "More information regarding the " \o ToString(visa_type) \o " work authorization rules coming soon! Thanks!"

(***************************************************************************)
(* MainDialog.messagefunc: the response table.  A call that falls off the  *)
(* end of the function returns undefined.                                  *)
(***************************************************************************)
\* messagefunc with a fallback that does not name the visa type.
messagefunc_GenericFallback(visa_type, work_type) ==
    IF LooseEq(visa_type, "f1")
    THEN IF LooseEq(work_type, "on campus") THEN Str(OnCampusText)
         ELSE IF LooseEq(work_type, "cpt") THEN Str(CptText)
         ELSE IF LooseEq(work_type, "opt") THEN Str(OptText)
         ELSE Undef
    ELSE Str("More information regarding the work authorization rules coming soon! Thanks!")

\* messagefunc made total: the fallback also closes the f1 branch.
messagefunc_Total(visa_type, work_type) ==
    IF LooseEq(visa_type, "f1") /\ LooseEq(work_type, "on campus") THEN Str(OnCampusText)
    ELSE IF LooseEq(visa_type, "f1") /\ LooseEq(work_type, "cpt") THEN Str(CptText)
    ELSE IF LooseEq(visa_type, "f1") /\ LooseEq(work_type, "opt") THEN Str(OptText)
    ELSE Str(ComingSoonText(visa_type))

messagefunc(visa_type, work_type) ==
    IF LooseEq(visa_type, "f1")
    THEN IF LooseEq(work_type, "on campus") THEN Str(OnCampusText)
         ELSE IF LooseEq(work_type, "cpt") THEN Str(CptText)
         ELSE IF LooseEq(work_type, "opt") THEN Str(OptText)
         ELSE Undef
    ELSE Str(ComingSoonText(visa_type))

(***************************************************************************)
(* The classifier.  executeLuisQuery and the entity getters belong to the  *)
(* recognizer, which is outside the dialogs: a query returns a top intent  *)
(* and, for every entity, either nothing (undefined) or the entity group,  *)
(* an object holding the extracted text under the entity's name.           *)
(***************************************************************************)
Intents ==
    {"eligibility", "procedure_auth", "visa_information", "BookFlight",
     "GetWeather", "Cancel", "None"}

VisaTypes ==
    {"f1", "f2", "h1b"}

WorkTypes ==
    {"on campus", "cpt", "opt", "h1b"}

OccupationStatuses ==
    {"employee"}

Cities ==
    {"Paris"}

TravelDates ==
    {"2020-03-22"}

Group(name, values) ==
    {Undef} \cup {Obj(name, v) : v \in values}

\* A flight entity: the city as recognised text only (from / to), or
\* resolved to an airport.
FlightGroup(name) ==
    {Undef} \cup {Obj(name, c) : c \in Cities} \cup {Obj("airport", c) : c \in Cities}

LuisResults ==
    [topIntent : Intents,
     visa_type : Group("visa_type", VisaTypes),
     work_type : Group("work_type", WorkTypes),
     occupation_status : Group("occupation_status", OccupationStatuses),
     from : FlightGroup("from"),
     to : FlightGroup("to"),
     travelDate : {Undef} \cup {Str(d) : d \in TravelDates}]

NoResult ==
    [topIntent |-> "", visa_type |-> Undef, work_type |-> Undef,
     occupation_status |-> Undef, from |-> Undef, to |-> Undef,
     travelDate |-> Undef]

executeLuisQuery ==
    LuisResults

topIntent(luis) ==
    luis.topIntent

getVisaTypeEntities(luis) ==
    luis.visa_type

getWorkTypeEntities(luis) ==
    luis.work_type

getOccupationStatusEntities(luis) ==
    luis.occupation_status

getFromEntities(luis) ==
    luis.from

getToEntities(luis) ==
    luis.to

getTravelDate(luis) ==
    luis.travelDate

(***************************************************************************)
(* State.                                                                  *)
(***************************************************************************)
VARIABLES
    args,          \* which of the constructor's two arguments were supplied
    dialogs,       \* the ids of the dialogs added to the MainDialog
    isConfigured,  \* luisRecognizer.isConfigured
    pc,            \* the step the dialog stack is at, or what it waits in
    restartMsg,    \* options.restartMsg of the main waterfall
    luisResult,    \* the classifier's answer in the current turn
    queries,       \* how often the classifier was queried in the current turn
    previous,      \* the top intent of the turn before, "" if there was none
    userinfo,      \* the object handed to bookingDialog (its options)
    entered,       \* that object as it was when bookingDialog began
    result,        \* stepContext.result of the step about to run
    sent,          \* the activities sent in the current turn, in order
    mfArgs,        \* the arguments of finalStep's call of messagefunc
    msg            \* finalStep's msg

vars ==
    <<args, dialogs, isConfigured, pc, restartMsg, luisResult, queries, previous, userinfo,
      entered, result, sent, mfArgs, msg>>

\* {} as created by actStep.
EmptyRecord ==
    [type |-> Undef, visa_type |-> Undef, work_type |-> Undef,
     occupation_status |-> Undef, destination |-> Undef, origin |-> Undef,
     travelDate |-> Undef]

\* The dialog stack is suspended and the turn is over.
Waiting ==
    pc \in {"empty", "TextPrompt", "error"}

Texts ==
    {"hello"}

\* The dialogs the constructor adds: the prompt, the detail-collection
\* dialog and the main waterfall.
AllDialogs ==
    {"TextPrompt", "bookingDialog", "mainWaterfallDialog"}

\* Before new MainDialog(luisRecognizer, bookingDialog): either argument
\* may be missing; a recognizer that is there is configured or not.
Init ==
    /\ args \in [luisRecognizer : BOOLEAN, bookingDialog : BOOLEAN]
    /\ dialogs = {}
    /\ isConfigured \in (IF args.luisRecognizer THEN BOOLEAN ELSE {FALSE})
    /\ pc = "new"
    /\ restartMsg = Undef
    /\ luisResult = NoResult
    /\ queries = 0
    /\ previous = ""
    /\ userinfo = EmptyRecord
    /\ entered = EmptyRecord
    /\ result = Undef
    /\ sent = <<>>
    /\ mfArgs = <<>>
    /\ msg = Str("")

(***************************************************************************)
(* MainDialog.constructor: a missing argument throws before any dialog is  *)
(* added; otherwise the three dialogs are added and the instance waits     *)
(* with an empty dialog stack.                                             *)
(***************************************************************************)
\* The constructor adding its dialogs before it looks at its arguments.
constructor_ChecksLate ==
    /\ pc = "new"
    /\ dialogs' = AllDialogs
    /\ pc' = IF ~args.luisRecognizer \/ ~args.bookingDialog
             THEN "constructionError" ELSE "empty"
    /\ UNCHANGED <<args, isConfigured, restartMsg, luisResult, queries, previous,
                   userinfo, entered, result, sent, mfArgs, msg>>

constructor ==
    /\ pc = "new"
    /\ IF ~args.luisRecognizer
       THEN pc' = "constructionError" /\ dialogs' = dialogs
       ELSE IF ~args.bookingDialog
       THEN pc' = "constructionError" /\ dialogs' = dialogs
       ELSE pc' = "empty" /\ dialogs' = AllDialogs
    /\ UNCHANGED <<args, isConfigured, restartMsg, luisResult, queries, previous,
                   userinfo, entered, result, sent, mfArgs, msg>>

(***************************************************************************)
(* MainDialog.run: an inbound message arrives while the stack is           *)
(* suspended.  continueDialog hands the text to an outstanding TextPrompt, *)
(* which completes and resumes the waterfall at actStep; with an empty     *)
(* stack beginDialog starts the waterfall at introStep with no options.    *)
(* After an uncaught exception the host either kept the stack it had saved *)
(* at the end of the previous turn (the prompt) or dropped it.             *)
(***************************************************************************)
run ==
    /\ Waiting
    /\ \E text \in Texts, stack \in {"empty", "TextPrompt"} :
         /\ pc = "error" \/ stack = pc
         /\ IF stack = "TextPrompt"
            THEN /\ pc' = "actStep"
                 /\ result' = Str(text)
                 /\ UNCHANGED restartMsg
            ELSE /\ pc' = "introStep"
                 /\ result' = Undef
                 /\ restartMsg' = Undef
    /\ sent' = <<>>
    /\ luisResult' = NoResult
    /\ queries' = 0
    /\ previous' = luisResult.topIntent
    /\ mfArgs' = <<>>
    /\ msg' = Str("")
    /\ UNCHANGED <<args, dialogs, isConfigured, userinfo, entered>>

(***************************************************************************)
(* MainDialog.introStep                                                    *)
(***************************************************************************)
introStep ==
    /\ pc = "introStep"
    /\ Len(sent) < MaxSent
    /\ IF ~isConfigured
       THEN /\ sent' = Append(sent, Str(NoteText))
            /\ pc' = "actStep"
            /\ result' = Undef
       ELSE /\ sent' = Append(sent, IF Truthy(restartMsg) THEN restartMsg
                                                          ELSE Str(GreetingText))
            /\ pc' = "TextPrompt"
            /\ UNCHANGED result
    /\ UNCHANGED <<args, dialogs, isConfigured, restartMsg, luisResult, queries, previous, userinfo, entered,
                   mfArgs, msg>>

(***************************************************************************)
(* MainDialog.showWarningForUnsupportedCities                              *)
(***************************************************************************)
\* Reading .from of the first or .to of the second argument raises a
\* TypeError when that argument is undefined; nothing is sent before.
showWarningThrows(fromEntities, toEntities) ==
    Throws(fromEntities) \/ Throws(toEntities)

unsupportedCities(fromEntities, toEntities) ==
    (IF Truthy(Get(fromEntities, "from")) /\ ~Truthy(Get(fromEntities, "airport"))
     THEN <<Get(fromEntities, "from").s>> ELSE <<>>)
    \o
    (IF Truthy(Get(toEntities, "to")) /\ ~Truthy(Get(toEntities, "airport"))
     THEN <<Get(toEntities, "to").s>> ELSE <<>>)

RECURSIVE join(_)
join(cities) ==
    IF cities = <<>> THEN ""
    ELSE IF Len(cities) = 1 THEN cities[1]
    ELSE cities[1] \o ", " \o join(Tail(cities))

\* The activities the call sends: one warning, or none.
showWarningForUnsupportedCities(fromEntities, toEntities) ==
    IF unsupportedCities(fromEntities, toEntities) # <<>>
    THEN <<Str("Sorry but the following airports are not supported: "
               \o join(unsupportedCities(fromEntities, toEntities)))>>
    ELSE <<>>

(***************************************************************************)
(* MainDialog.actStep                                                      *)
(***************************************************************************)
\* beginDialog('bookingDialog', record): the child waterfall starts at its
\* first step in the same turn.
beginBookingDialog(record) ==
    /\ userinfo' = record
    /\ entered' = record
    /\ pc' = "visaTypeStep"
    /\ result' = Undef

\* An exception leaves the step; the objects actStep created at its start
\* are empty and no dialog was begun with them.
throwError ==
    /\ pc' = "error"
    /\ userinfo' = EmptyRecord
    /\ entered' = EmptyRecord
    /\ UNCHANGED result

\* return await stepContext.next(): the waterfall goes on to finalStep; the
\* objects actStep created at its start were not used.
nextToFinalStep ==
    /\ pc' = "finalStep"
    /\ result' = Undef
    /\ userinfo' = EmptyRecord
    /\ entered' = EmptyRecord

actStepEligibility(luis) ==
    IF showWarningThrows(getVisaTypeEntities(luis), getWorkTypeEntities(luis))
    THEN throwError /\ UNCHANGED sent
    ELSE /\ Len(sent) + Len(showWarningForUnsupportedCities(
                  getVisaTypeEntities(luis), getWorkTypeEntities(luis))) <= MaxSent
         /\ sent' = sent \o showWarningForUnsupportedCities(
                  getVisaTypeEntities(luis), getWorkTypeEntities(luis))
         /\ beginBookingDialog(
              [EmptyRecord EXCEPT !.type = Str("eligibility"),
                                  !.visa_type = getVisaTypeEntities(luis),
                                  !.work_type = getWorkTypeEntities(luis),
                                  !.occupation_status = getOccupationStatusEntities(luis)])

\* actStepProcedureAuth filling a record that outlives the turn instead of
\* a new one.
actStepProcedureAuth_KeepsRecord(luis) ==
    /\ beginBookingDialog(
         [userinfo EXCEPT !.visa_type = getVisaTypeEntities(luis),
                          !.type = Str("procedure_auth")])
    /\ UNCHANGED sent

actStepProcedureAuth(luis) ==
    /\ beginBookingDialog(
         [EmptyRecord EXCEPT !.visa_type = getVisaTypeEntities(luis),
                             !.type = Str("procedure_auth")])
    /\ UNCHANGED sent

actStepVisaInformation(luis) ==
    /\ beginBookingDialog(
         [EmptyRecord EXCEPT !.type = Str("visa_information"),
                             !.visa_type = getVisaTypeEntities(luis),
                             !.work_type = getWorkTypeEntities(luis)])
    /\ UNCHANGED sent

actStepBookFlight(luis) ==
    IF showWarningThrows(getFromEntities(luis), getToEntities(luis))
    THEN throwError /\ UNCHANGED sent
    ELSE /\ Len(sent) + Len(showWarningForUnsupportedCities(
                  getFromEntities(luis), getToEntities(luis))) <= MaxSent
         /\ sent' = sent \o showWarningForUnsupportedCities(
                  getFromEntities(luis), getToEntities(luis))
         /\ beginBookingDialog(
              [EmptyRecord EXCEPT !.destination = Get(getToEntities(luis), "airport"),
                                  !.origin = Get(getFromEntities(luis), "airport"),
                                  !.travelDate = getTravelDate(luis)])

\* The GetWeather case without its break: it runs on into the default case.
actStepGetWeather_NoBreak ==
    /\ Len(sent) + 2 <= MaxSent
    /\ sent' = sent \o <<Str(TodoText), Str(DidntUnderstandText("GetWeather"))>>
    /\ nextToFinalStep

actStepGetWeather ==
    /\ Len(sent) < MaxSent
    /\ sent' = Append(sent, Str(TodoText))
    /\ nextToFinalStep

\* The default case without its break: it falls into the booking path.
actStepDefault_FallsThrough(luis) ==
    /\ Len(sent) < MaxSent
    /\ sent' = Append(sent, Str(DidntUnderstandText(topIntent(luis))))
    /\ beginBookingDialog(EmptyRecord)

actStepDefault(luis) ==
    /\ Len(sent) < MaxSent
    /\ sent' = Append(sent, Str(DidntUnderstandText(topIntent(luis))))
    /\ nextToFinalStep

\* actStep querying the classifier before it looks at isConfigured.
actStep_QueriesFirst ==
    /\ pc = "actStep"
    /\ \E luis \in executeLuisQuery :
         /\ luisResult' = luis
         /\ queries' = queries + 1
         /\ IF ~isConfigured
            THEN /\ beginBookingDialog(EmptyRecord)
                 /\ UNCHANGED sent
            ELSE CASE topIntent(luis) = "eligibility" -> actStepEligibility(luis)
                   [] topIntent(luis) = "procedure_auth" -> actStepProcedureAuth(luis)
                   [] topIntent(luis) = "visa_information" -> actStepVisaInformation(luis)
                   [] topIntent(luis) = "BookFlight" -> actStepBookFlight(luis)
                   [] topIntent(luis) = "GetWeather" -> actStepGetWeather
                   [] OTHER -> actStepDefault(luis)
    /\ UNCHANGED <<args, dialogs, isConfigured, restartMsg, previous, mfArgs, msg>>

actStep ==
    /\ pc = "actStep"
    /\ IF ~isConfigured
       THEN /\ beginBookingDialog(EmptyRecord)
            /\ UNCHANGED <<sent, luisResult, queries, previous>>
       ELSE \E luis \in executeLuisQuery :
              /\ luisResult' = luis
              /\ queries' = queries + 1
              /\ CASE topIntent(luis) = "eligibility" -> actStepEligibility(luis)
                   [] topIntent(luis) = "procedure_auth" -> actStepProcedureAuth(luis)
                   [] topIntent(luis) = "visa_information" -> actStepVisaInformation(luis)
                   [] topIntent(luis) = "BookFlight" -> actStepBookFlight(luis)
                   [] topIntent(luis) = "GetWeather" -> actStepGetWeather
                   [] OTHER -> actStepDefault(luis)
    /\ UNCHANGED <<args, dialogs, isConfigured, restartMsg, previous, mfArgs, msg>>

(***************************************************************************)
(* BookingDialog: the waterfall visaTypeStep, workTypeStep,                *)
(* occupationStatusStep.  Every step ends in stepContext.next(value), so   *)
(* the next step runs in the same turn with that value as its result; the  *)
(* value passed by the last step ends the dialog and becomes the result of *)
(* the parent's finalStep.                                                 *)
(***************************************************************************)
\* visaTypeStep setting its default whether or not a visa type is there.
visaTypeStep_AlwaysDefault ==
    /\ pc = "visaTypeStep"
    /\ userinfo' = [userinfo EXCEPT !.visa_type = Str("f1")]
    /\ result' = userinfo'.visa_type
    /\ pc' = "workTypeStep"
    /\ UNCHANGED <<args, dialogs, isConfigured, restartMsg, luisResult, queries, previous, entered, sent, mfArgs, msg>>

\* visaTypeStep with the prompt of its commented-out lines: a missing visa
\* type suspends the dialog in a text prompt.
visaTypeStep_Prompting ==
    /\ pc = "visaTypeStep"
    /\ IF ~Truthy(userinfo.visa_type)
       THEN /\ Len(sent) < MaxSent
            /\ sent' = Append(sent, Str("What visa type do you current have?"))
            /\ pc' = "textPrompt"
            /\ UNCHANGED <<userinfo, result>>
       ELSE /\ result' = userinfo.visa_type
            /\ pc' = "workTypeStep"
            /\ UNCHANGED <<userinfo, sent>>
    /\ UNCHANGED <<args, dialogs, isConfigured, restartMsg, luisResult, queries, previous, entered, mfArgs, msg>>

visaTypeStep ==
    /\ pc = "visaTypeStep"
    /\ userinfo' = IF ~Truthy(userinfo.visa_type)
                   THEN [userinfo EXCEPT !.visa_type = Str("f1")]
                   ELSE userinfo
    /\ result' = userinfo'.visa_type
    /\ pc' = "workTypeStep"
    /\ UNCHANGED <<args, dialogs, isConfigured, restartMsg, luisResult, queries, previous, entered, sent, mfArgs, msg>>

\* workTypeStep setting its default whether or not a work type is there.
workTypeStep_AlwaysDefault ==
    /\ pc = "workTypeStep"
    /\ userinfo' = [userinfo EXCEPT !.visa_type = result, !.work_type = Str("opt")]
    /\ result' = userinfo'.work_type
    /\ pc' = "occupationStatusStep"
    /\ UNCHANGED <<args, dialogs, isConfigured, restartMsg, luisResult, queries, previous, entered, sent, mfArgs, msg>>

workTypeStep ==
    /\ pc = "workTypeStep"
    /\ LET captured == [userinfo EXCEPT !.visa_type = result]
       IN  userinfo' = IF ~Truthy(captured.work_type)
                       THEN [captured EXCEPT !.work_type = Str("opt")]
                       ELSE captured
    /\ result' = userinfo'.work_type
    /\ pc' = "occupationStatusStep"
    /\ UNCHANGED <<args, dialogs, isConfigured, restartMsg, luisResult, queries, previous, entered, sent, mfArgs, msg>>

\* occupationStatusStep without its default.
occupationStatusStep_NoDefault ==
    /\ pc = "occupationStatusStep"
    /\ userinfo' = [userinfo EXCEPT !.work_type = result]
    /\ result' = Ref
    /\ pc' = "finalStep"
    /\ UNCHANGED <<args, dialogs, isConfigured, restartMsg, luisResult, queries, previous, entered, sent, mfArgs, msg>>

occupationStatusStep ==
    /\ pc = "occupationStatusStep"
    /\ LET captured == [userinfo EXCEPT !.work_type = result]
       IN  userinfo' = IF ~Truthy(captured.occupation_status)
                       THEN [captured EXCEPT !.occupation_status = Str("student")]
                       ELSE captured
    /\ result' = Ref
    /\ pc' = "finalStep"
    /\ UNCHANGED <<args, dialogs, isConfigured, restartMsg, luisResult, queries, previous, entered, sent, mfArgs, msg>>

(***************************************************************************)
(* MainDialog.finalStep.  A truthy result is the record the child dialog   *)
(* returned.  new TimexProperty(result.travelDate) and toNaturalLanguage   *)
(* compute a text that is not used.                                        *)
(***************************************************************************)
\* finalStepArgs reading the work type the same way under every type: the
\* raw value, as the procedure_auth branch does.
finalStepArgs_RawWorkType(record) ==
    IF \/ LooseEq(record.type, "eligibility")
       \/ LooseEq(record.type, "visa_information")
       \/ LooseEq(record.type, "procedure_auth")
    THEN <<Get(record.visa_type, "visa_type"), record.work_type>>
    ELSE <<>>

\* finalStepArgs reading the work type the same way under every type: the
\* nested field, as the eligibility branch does.
finalStepArgs_NestedWorkType(record) ==
    IF \/ LooseEq(record.type, "eligibility")
       \/ LooseEq(record.type, "visa_information")
       \/ LooseEq(record.type, "procedure_auth")
    THEN <<Get(record.visa_type, "visa_type"), Get(record.work_type, "work_type")>>
    ELSE <<>>

\* The arguments of the messagefunc call the record's type selects; <<>>
\* when the type selects none.
finalStepArgs(record) ==
    IF LooseEq(record.type, "eligibility")
    THEN <<Get(record.visa_type, "visa_type"), Get(record.work_type, "work_type")>>
    ELSE IF LooseEq(record.type, "visa_information")
    THEN <<Get(record.visa_type, "visa_type"), Get(record.work_type, "work_type")>>
    ELSE IF LooseEq(record.type, "procedure_auth")
    THEN <<Get(record.visa_type, "visa_type"), record.work_type>>
    ELSE <<>>

\* Evaluating those arguments reads a property of undefined.
finalStepThrows(record) ==
    IF LooseEq(record.type, "eligibility") \/ LooseEq(record.type, "visa_information")
    THEN Throws(record.visa_type) \/ Throws(record.work_type)
    ELSE IF LooseEq(record.type, "procedure_auth")
    THEN Throws(record.visa_type)
    ELSE FALSE

finalStepMsg(record) ==
    IF finalStepArgs(record) # <<>>
    THEN messagefunc(finalStepArgs(record)[1], finalStepArgs(record)[2])
    ELSE Str(SomethingWrongText)

\* replaceDialog without its options: the restart carries no restartMsg.
replaceDialog_NoOptions ==
    /\ pc' = "introStep"
    /\ restartMsg' = Undef
    /\ result' = Undef

\* replaceDialog(initialDialogId, { restartMsg }): the waterfall starts
\* over at introStep in the same turn.
replaceDialog ==
    /\ pc' = "introStep"
    /\ restartMsg' = Str(RestartText)
    /\ result' = Undef

finalStep ==
    /\ pc = "finalStep"
    /\ IF Truthy(result)
       THEN IF finalStepThrows(userinfo)
            THEN /\ pc' = "error"
                 /\ UNCHANGED <<restartMsg, result, sent, mfArgs, msg>>
            ELSE /\ Len(sent) < MaxSent
                 /\ mfArgs' = finalStepArgs(userinfo)
                 /\ msg' = finalStepMsg(userinfo)
                 /\ sent' = Append(sent, msg')
                 /\ replaceDialog
       ELSE /\ replaceDialog
            /\ UNCHANGED <<sent, mfArgs, msg>>
    /\ UNCHANGED <<args, dialogs, isConfigured, luisResult, queries, previous, userinfo, entered>>

(***************************************************************************)
(* The bot in a conversation.                                              *)
(***************************************************************************)
Next ==
    \/ constructor
    \/ run
    \/ introStep
    \/ actStep
    \/ visaTypeStep
    \/ workTypeStep
    \/ occupationStatusStep
    \/ finalStep

Spec ==
    Init /\ [][Next]_vars

(***************************************************************************)
(* BookingDialog on its own: begun with any record as its options.         *)
(***************************************************************************)
FieldValues(name, values, default) ==
    Group(name, values) \cup {Str(""), Str(default)}

AnyRecords ==
    [type : {Undef, Str("eligibility"), Str("visa_information"), Str("procedure_auth")},
     visa_type : FieldValues("visa_type", VisaTypes, "f1"),
     work_type : FieldValues("work_type", WorkTypes, "opt"),
     occupation_status : FieldValues("occupation_status", OccupationStatuses, "student"),
     destination : {Undef} \cup {Str(c) : c \in Cities},
     origin : {Undef} \cup {Str(c) : c \in Cities},
     travelDate : {Undef} \cup {Str(d) : d \in TravelDates}]

InitBooking ==
    /\ args = [luisRecognizer |-> TRUE, bookingDialog |-> TRUE]
    /\ dialogs = AllDialogs
    /\ isConfigured = TRUE
    /\ pc = "visaTypeStep"
    /\ restartMsg = Undef
    /\ luisResult = NoResult
    /\ queries = 0
    /\ previous = ""
    /\ userinfo \in AnyRecords
    /\ entered = userinfo
    /\ result = Undef
    /\ sent = <<>>
    /\ mfArgs = <<>>
    /\ msg = Str("")

\* The dialog is begun a second time, with the record its first run
\* returned and changed.
beginAgain ==
    /\ pc = "finalStep"
    /\ result = Ref
    /\ userinfo # entered
    /\ beginBookingDialog(userinfo)
    /\ UNCHANGED <<args, dialogs, isConfigured, restartMsg, luisResult, queries, previous, sent, mfArgs, msg>>

NextBooking ==
    \/ visaTypeStep
    \/ workTypeStep
    \/ occupationStatusStep
    \/ beginAgain

SpecBooking ==
    InitBooking /\ [][NextBooking]_vars

(***************************************************************************)
(* messagefunc on its own: called with any pair of arguments.              *)
(***************************************************************************)
ArgValues ==
    {Undef, Str(""), Obj("visa_type", "f1")}
        \cup {Str(v) : v \in VisaTypes \cup WorkTypes}

callMessagefunc ==
    /\ pc = "messagefunc"
    /\ msg' = messagefunc(mfArgs[1], mfArgs[2])
    /\ pc' = "returned"
    /\ UNCHANGED <<args, dialogs, isConfigured, restartMsg, luisResult, queries, previous, userinfo, entered,
                   result, sent, mfArgs>>

InitTable ==
    /\ args = [luisRecognizer |-> TRUE, bookingDialog |-> TRUE]
    /\ dialogs = AllDialogs
    /\ isConfigured = TRUE
    /\ pc = "messagefunc"
    /\ restartMsg = Undef
    /\ luisResult = NoResult
    /\ queries = 0
    /\ previous = ""
    /\ userinfo = EmptyRecord
    /\ entered = EmptyRecord
    /\ result = Undef
    /\ sent = <<>>
    /\ mfArgs \in ArgValues \X ArgValues
    /\ msg = Str("")

NextTable ==
    callMessagefunc

SpecTable ==
    InitTable /\ [][NextTable]_vars

(***************************************************************************)
(* Vocabulary of the properties.                                           *)
(***************************************************************************)
\* t contains u as a substring.
Contains(t, u) ==
    \E i \in 1..(Len(t) - Len(u) + 1) : SubSeq(t, i, i + Len(u) - 1) = u

BookingSteps ==
    {"visaTypeStep", "workTypeStep", "occupationStatusStep"}

\* The texts introStep sends, one per run of the step.
IntroTexts ==
    {Str(NoteText), Str(GreetingText), Str(RestartText)}

\* How often introStep has run in the current turn.
IntroRuns ==
    Cardinality({i \in DOMAIN sent : sent[i] \in IntroTexts})

\* finalStep has sent its msg in the current turn (msg starts as "").
Replied ==
    msg # Str("")

\* finalStep's activity was m: the last one sent, or the one before the
\* Greeting prompt that followed it.
RepliedWith(m) ==
    /\ Replied
    /\ sent # <<>>
    /\ IF pc = "introStep" THEN sent[Len(sent)] = m
       ELSE Len(sent) >= 2 /\ sent[Len(sent) - 1] = m

\* The intents actStep's switch has a case for.
HandledIntents ==
    {"eligibility", "procedure_auth", "visa_information", "BookFlight", "GetWeather"}

FixedWorkTypes ==
    {"on campus", "cpt", "opt"}

FixedText(work_type) ==
    CASE work_type = "on campus" -> OnCampusText
      [] work_type = "cpt" -> CptText
      [] work_type = "opt" -> OptText

TableTexts ==
    {Str(FixedText(w)) : w \in FixedWorkTypes}
        \cup {Str(ComingSoonText(v)) : v \in ArgValues}

(***************************************************************************)
(* Properties.                                                             *)
(***************************************************************************)
\* C1: every turn stops for user input: within one turn the Greeting step
\* runs at most once, so the turn ends suspended instead of going round
\* Greeting, Classification, detail collection and Resolution again.
C1_TurnStopsForInput ==
    IntroRuns <= 1

\* C2: with the classifier unconfigured no free-text prompt is issued,
\* detail collection starts from the empty record, the defaults f1 / opt /
\* student are applied, and the reply sent at Resolution is the OPT text.
C2_UnconfiguredRepliesOpt ==
    (~isConfigured /\ Replied) =>
        /\ \A i \in DOMAIN sent : sent[i] \notin {Str(GreetingText), Str(RestartText)}
        /\ entered = EmptyRecord
        /\ userinfo.visa_type = Str("f1")
        /\ userinfo.work_type = Str("opt")
        /\ userinfo.occupation_status = Str("student")
        /\ msg = Str(OptText)

\* C3: whatever record enters the detail-collection dialog, the record it
\* returns after its three steps has visa_type, work_type and
\* occupation_status all set.
C3_AllThreeSet ==
    (pc = "finalStep" /\ result = Ref) =>
        /\ Truthy(userinfo.visa_type)
        /\ Truthy(userinfo.work_type)
        /\ Truthy(userinfo.occupation_status)

C3_Witness ==
    /\ pc = "finalStep"
    /\ result = Ref
    /\ ~Truthy(entered.visa_type)
    /\ ~Truthy(entered.work_type)
    /\ Truthy(entered.occupation_status)
    /\ userinfo.visa_type = Str("f1")
    /\ userinfo.work_type = Str("opt")

\* C4: the detail-collection dialog runs exactly its three steps in the
\* order visaTypeStep, workTypeStep, occupationStatusStep and then returns
\* the record to finalStep; no step fails, sends a prompt or suspends, so no
\* inbound message arrives while it is active.
C4_ThreeStepsNoSuspension ==
    [][/\ pc = "visaTypeStep" => pc' = "workTypeStep"
       /\ pc = "workTypeStep" => pc' = "occupationStatusStep"
       /\ pc = "occupationStatusStep" => (pc' = "finalStep" /\ result' = Ref)
       /\ pc' = "visaTypeStep" => pc = "actStep"
       /\ pc' = "workTypeStep" => pc = "visaTypeStep"
       /\ pc' = "occupationStatusStep" => pc = "workTypeStep"
       /\ pc \in BookingSteps => (sent' = sent /\ ~Waiting /\ ~run)]_vars

C4_Witness ==
    /\ pc = "finalStep"
    /\ result = Ref
    /\ entered.type = Str("procedure_auth")
    /\ entered.work_type = Undef
    /\ userinfo.work_type = Str("opt")
    /\ sent = <<>>

\* C5: for intent eligibility or visa_information with a visa-type entity v
\* and a work-type entity w, occupation_status is "student" unless it was
\* extracted, and the reply is messagefunc(v, w); for f1 and cpt that is the
\* CPT text.
C5_EntitiesSelectReply ==
    (/\ luisResult.topIntent \in {"eligibility", "visa_information"}
     /\ luisResult.visa_type # Undef
     /\ luisResult.work_type # Undef) =>
        /\ pc # "error"
        /\ Replied =>
              /\ userinfo.occupation_status =
                    IF luisResult.topIntent = "eligibility"
                       /\ luisResult.occupation_status # Undef
                    THEN luisResult.occupation_status
                    ELSE Str("student")
              /\ RepliedWith(messagefunc(Str(luisResult.visa_type.s),
                                         Str(luisResult.work_type.s)))
              /\ (luisResult.visa_type.s = "f1" /\ luisResult.work_type.s = "cpt")
                    => RepliedWith(Str(CptText))

C5_Witness ==
    /\ pc = "TextPrompt"
    /\ luisResult.topIntent = "eligibility"
    /\ luisResult.visa_type = Obj("visa_type", "f1")
    /\ luisResult.work_type = Obj("work_type", "cpt")
    /\ luisResult.occupation_status = Undef
    /\ userinfo.occupation_status = Str("student")
    /\ RepliedWith(Str(CptText))

\* C6: for intent procedure_auth with an extracted visa type v the work
\* type is the default "opt" and the reply is messagefunc(v, "opt"): the
\* fallback text naming v when v is not f1, the OPT text when it is.
C6_ProcedureAuthReply ==
    (/\ luisResult.topIntent = "procedure_auth"
     /\ luisResult.visa_type # Undef) =>
        /\ pc # "error"
        /\ Replied =>
              /\ userinfo.work_type = Str("opt")
              /\ RepliedWith(messagefunc(Str(luisResult.visa_type.s), Str("opt")))
              /\ luisResult.visa_type.s # "f1" =>
                    /\ RepliedWith(Str(ComingSoonText(Str(luisResult.visa_type.s))))
                    /\ Contains(msg.s, luisResult.visa_type.s)
              /\ luisResult.visa_type.s = "f1" => RepliedWith(Str(OptText))

C6_Witness ==
    /\ pc = "TextPrompt"
    /\ luisResult.topIntent = "procedure_auth"
    /\ luisResult.visa_type = Obj("visa_type", "f2")
    /\ msg.k = "str"
    /\ Contains(msg.s, "f2")
    /\ RepliedWith(msg)

\* C7: messagefunc returns for f1 with "on campus", "cpt" and "opt" the
\* fixed text of that work type, non-empty and different from the other
\* two, and for a visa type other than f1, whatever the work type, a text
\* that contains the visa type.
C7_TableTexts ==
    pc = "returned" =>
        /\ (mfArgs[1] = Str("f1") /\ mfArgs[2].k = "str"
                /\ mfArgs[2].s \in FixedWorkTypes) =>
              /\ msg = Str(FixedText(mfArgs[2].s))
              /\ msg.s # ""
              /\ \A w \in FixedWorkTypes \ {mfArgs[2].s} : msg.s # FixedText(w)
        /\ (mfArgs[1].k = "str" /\ mfArgs[1].s # "f1") =>
              /\ msg.k = "str"
              /\ Contains(msg.s, mfArgs[1].s)

C7_Witness ==
    /\ pc = "returned"
    /\ mfArgs = <<Str("h1b"), Str("opt")>>
    /\ msg.k = "str"
    /\ Contains(msg.s, "h1b")

\* C8: the lookup is total: every pair of arguments other than f1 with one
\* of the three fixed work types gets the generic "coming soon" text.
C8_EveryOtherPairFallsBack ==
    (pc = "returned"
        /\ ~(LooseEq(mfArgs[1], "f1") /\ mfArgs[2].k = "str"
                /\ mfArgs[2].s \in FixedWorkTypes)) =>
        msg = Str(ComingSoonText(mfArgs[1]))

\* C9: for visa type f1 and a work type outside the three fixed ones
\* messagefunc returns undefined and nothing is thrown; finalStep sends
\* that value and restarts the waterfall at the Greeting step.
C9_GapIsSilent ==
    [][(/\ pc = "finalStep"
        /\ Truthy(result)
        /\ Len(finalStepArgs(userinfo)) = 2
        /\ LooseEq(finalStepArgs(userinfo)[1], "f1")
        /\ \A w \in FixedWorkTypes : ~LooseEq(finalStepArgs(userinfo)[2], w)) =>
           /\ msg' = Undef
           /\ sent' = Append(sent, Undef)
           /\ pc' = "introStep"
           /\ restartMsg' = Str(RestartText)]_vars

C9_Witness ==
    /\ pc = "TextPrompt"
    /\ mfArgs = <<Str("f1"), Str("h1b")>>
    /\ msg = Undef
    /\ sent = <<Undef, Str(RestartText)>>

\* C10: for a top intent the switch has no case for, actStep sends the
\* "didn't understand" text naming the intent, the detail-collection dialog
\* is not begun, no response-table text is sent, and the waterfall restarts
\* at the Greeting step.
C10_UnhandledIntent ==
    (luisResult # NoResult /\ luisResult.topIntent \notin HandledIntents) =>
        /\ pc \in {"finalStep", "introStep", "TextPrompt"}
        /\ sent # <<>>
        /\ sent[1] = Str(DidntUnderstandText(luisResult.topIntent))
        /\ userinfo = EmptyRecord
        /\ entered = EmptyRecord
        /\ mfArgs = <<>>
        /\ ~Replied
        /\ \A i \in DOMAIN sent : sent[i] \notin TableTexts \cup {Undef}
        /\ pc = "introStep" => restartMsg = Str(RestartText)
        /\ pc = "TextPrompt" =>
              sent = <<Str(DidntUnderstandText(luisResult.topIntent)), Str(RestartText)>>

C10_Witness ==
    /\ pc = "TextPrompt"
    /\ luisResult.topIntent = "Cancel"
    /\ sent = <<Str(DidntUnderstandText("Cancel")), Str(RestartText)>>

\* C11 as stated: an intent outside the visa and flight cases (GetWeather,
\* Cancel, None, ...) is answered with the TODO text, and the turn ends at
\* the restart Greeting.
C11_NoCaseRepliesTodo ==
    (/\ luisResult # NoResult
     /\ luisResult.topIntent \notin
           {"eligibility", "visa_information", "procedure_auth", "BookFlight"}) =>
        /\ pc \in {"finalStep", "introStep", "TextPrompt"}
        /\ sent # <<>>
        /\ sent[1] = Str(TodoText)

\* C11: for the intent GetWeather, which has a case of its own, actStep
\* sends the TODO text, nothing is thrown, the detail-collection dialog is
\* not begun and the turn ends at the restart Greeting prompt.
C11_GetWeatherRepliesTodo ==
    (luisResult # NoResult /\ luisResult.topIntent = "GetWeather") =>
        /\ pc \in {"finalStep", "introStep", "TextPrompt"}
        /\ sent # <<>>
        /\ sent[1] = Str(TodoText)
        /\ entered = EmptyRecord
        /\ ~Replied
        /\ pc = "introStep" => (sent = <<Str(TodoText)>> /\ restartMsg = Str(RestartText))
        /\ pc = "TextPrompt" => sent = <<Str(TodoText), Str(RestartText)>>

C11_Witness ==
    /\ pc = "TextPrompt"
    /\ luisResult.topIntent = "GetWeather"
    /\ sent = <<Str(TodoText), Str(RestartText)>>

C13_QueriedOncePerReply ==
    /\ ~isConfigured => (queries = 0 /\ luisResult = NoResult)
    /\ queries <= 1
    /\ queries = 1 <=> luisResult # NoResult
    /\ pc = "actStep" => queries = 0
    /\ (isConfigured /\ pc = "actStep") => sent = <<>>
    /\ (isConfigured /\ (pc \in BookingSteps \cup {"finalStep", "error"} \/ Replied))
          => queries = 1
    /\ (isConfigured /\ pc = "TextPrompt" /\ Len(sent) >= 2) => queries = 1
    /\ (isConfigured /\ sent # <<>> /\ sent[1] \notin IntroTexts) => queries = 1
    /\ (sent # <<>> /\ sent[1] = Str(GreetingText)) => queries = 0

C13_Witness ==
    /\ isConfigured
    /\ pc = "TextPrompt"
    /\ queries = 1
    /\ luisResult.topIntent = "visa_information"
    /\ Replied

\* The three fields of a record are all set.
AllSet(record) ==
    /\ Truthy(record.visa_type)
    /\ Truthy(record.work_type)
    /\ Truthy(record.occupation_status)

\* C14: defaulting is idempotent: on a record that enters with its three
\* fields set no step changes anything and the record returned is the
\* record that entered; this holds in particular when the dialog is run
\* again on the record it returned.
C14_DefaultingIdempotent ==
    [][/\ (pc \in BookingSteps /\ AllSet(entered)) => userinfo' = entered
       /\ (pc = "finalStep" /\ result = Ref /\ userinfo # entered /\ pc' = "visaTypeStep")
             => (entered' = userinfo /\ AllSet(entered'))]_vars

C14_Witness ==
    /\ pc = "finalStep"
    /\ result = Ref
    /\ AllSet(entered)
    /\ userinfo = entered
    /\ entered.visa_type = Obj("visa_type", "h1b")
    /\ entered.work_type = Str("opt")
    /\ entered.occupation_status = Str("student")

\* The record actStep hands to the detail-collection dialog, as a function
\* of the configuration flag and the classifier's answer to this message.
FreshRecord(configured, luis) ==
    IF ~configured THEN EmptyRecord
    ELSE CASE luis.topIntent = "eligibility" ->
                [EmptyRecord EXCEPT !.type = Str("eligibility"),
                                    !.visa_type = luis.visa_type,
                                    !.work_type = luis.work_type,
                                    !.occupation_status = luis.occupation_status]
           [] luis.topIntent = "visa_information" ->
                [EmptyRecord EXCEPT !.type = Str("visa_information"),
                                    !.visa_type = luis.visa_type,
                                    !.work_type = luis.work_type]
           [] luis.topIntent = "procedure_auth" ->
                [EmptyRecord EXCEPT !.type = Str("procedure_auth"),
                                    !.visa_type = luis.visa_type]
           [] luis.topIntent = "BookFlight" ->
                [EmptyRecord EXCEPT !.destination = Get(luis.to, "airport"),
                                    !.origin = Get(luis.from, "airport"),
                                    !.travelDate = luis.travelDate]
           [] OTHER -> EmptyRecord

\* A record with the three defaults filled in where a field is not set.
Defaulted(record) ==
    [record EXCEPT
        !.visa_type = IF Truthy(@) THEN @ ELSE Str("f1"),
        !.work_type = IF Truthy(@) THEN @ ELSE Str("opt"),
        !.occupation_status = IF Truthy(@) THEN @ ELSE Str("student")]

\* C15: the record does not persist across turns: the record that enters
\* the detail-collection dialog is built from nothing but the classifier's
\* answer to the current message, and the reply is determined by that
\* answer and the configuration flag alone, whatever the earlier messages
\* were.
C15_ReplyDependsOnThisMessageOnly ==
    /\ pc \in BookingSteps => entered = FreshRecord(isConfigured, luisResult)
    /\ (Replied /\ pc \in {"introStep", "TextPrompt"}) =>
          /\ entered = FreshRecord(isConfigured, luisResult)
          /\ userinfo = Defaulted(entered)
          /\ msg = finalStepMsg(Defaulted(FreshRecord(isConfigured, luisResult)))
          /\ RepliedWith(msg)

C15_Witness ==
    /\ pc = "TextPrompt"
    /\ previous = "eligibility"
    /\ luisResult.topIntent = "procedure_auth"
    /\ luisResult.visa_type = Obj("visa_type", "f1")
    /\ RepliedWith(Str(OptText))

\* C16: constructing the MainDialog without a recognizer or without a
\* detail-collection dialog throws at once: no dialog has been added, no
\* instance exists to take a message, and nothing is ever sent.
C16_ConstructionFails ==
    /\ [][(pc = "new" /\ (~args.luisRecognizer \/ ~args.bookingDialog))
            => (pc' = "constructionError" /\ dialogs' = {})]_vars
    /\ []((~args.luisRecognizer \/ ~args.bookingDialog) =>
            /\ pc \in {"new", "constructionError"}
            /\ dialogs = {}
            /\ sent = <<>>)
    /\ [](pc \notin {"new", "constructionError"} =>
            /\ args.luisRecognizer
            /\ args.bookingDialog
            /\ dialogs = AllDialogs)

C16_Witness ==
    /\ pc = "constructionError"
    /\ args.luisRecognizer
    /\ ~args.bookingDialog
    /\ dialogs = {}

\* The value a field of the record holds: the text of an entity group, or
\* the string itself.
Held(x) ==
    IF x.k = "obj" THEN Str(x.s) ELSE x

VisaIntents ==
    {"eligibility", "visa_information", "procedure_auth"}

\* The classifier's answer left out an entity the intent's record takes, so
\* that the detail-collection dialog puts in a default.
EntityDefaulted(luis) ==
    /\ luis.topIntent \in VisaIntents
    /\ \/ ~Truthy(luis.visa_type)
       \/ luis.topIntent # "procedure_auth" /\ ~Truthy(luis.work_type)

\* C17: for eligibility, visa_information and procedure_auth, when a
\* visa-type or work-type entity is absent and its default (f1, opt) is
\* substituted, the reply finalStep sends is the one messagefunc gives for
\* the values held in the completed record, defaults included.
C17_ReplyFromCompletedRecord ==
    (/\ isConfigured
     /\ Replied
     /\ pc \in {"introStep", "TextPrompt"}
     /\ EntityDefaulted(luisResult)) =>
        RepliedWith(messagefunc(
            Held(Defaulted(FreshRecord(isConfigured, luisResult)).visa_type),
            Held(Defaulted(FreshRecord(isConfigured, luisResult)).work_type)))

\* The fields the detail-collection dialog fills in.
DetailFields ==
    {"visa_type", "work_type", "occupation_status"}

\* C18: the detail-collection dialog only fills in missing fields: no step
\* changes the type tag, a visa_type, work_type or occupation_status that
\* was set on entry, or any other field of the record; so the type tag
\* finalStep sees is the top intent the record was created under.
C18_OnlyFillsMissingFields ==
    /\ [][(pc \in BookingSteps) =>
            (/\ entered' = entered
             /\ \A f \in DOMAIN userinfo \ DetailFields : userinfo'[f] = entered[f]
             /\ \A f \in DetailFields :
                   (Truthy(entered[f]) => userinfo'[f] = entered[f])
                   /\ (Truthy(userinfo[f]) => userinfo'[f] = userinfo[f]))]_vars
    /\ []((/\ isConfigured
           /\ pc = "finalStep"
           /\ result = Ref
           /\ luisResult.topIntent \in VisaIntents) =>
              /\ userinfo.type = Str(luisResult.topIntent)
              /\ userinfo = Defaulted(entered))

C18_Witness ==
    /\ pc = "finalStep"
    /\ result = Ref
    /\ luisResult.topIntent = "visa_information"
    /\ entered.visa_type = Obj("visa_type", "h1b")
    /\ entered.work_type = Undef
    /\ userinfo = [entered EXCEPT !.work_type = Str("opt"),
                                  !.occupation_status = Str("student")]

\* The Greeting prompts sent in the current turn.
GreetingPrompts ==
    {i \in DOMAIN sent : sent[i] \in {Str(GreetingText), Str(RestartText)}}

\* C19: with the classifier configured, the message that arrives on an
\* empty dialog stack is not classified: it starts the waterfall, which
\* sends the initial Greeting prompt and waits; actStep, and with it the
\* query, runs only in a turn that resumed the outstanding prompt; and every
\* turn ends with exactly one Greeting prompt sent and outstanding.
C19_OnePromptOutstanding ==
    isConfigured =>
        /\ (pc = "introStep" /\ restartMsg = Undef) => (queries = 0 /\ sent = <<>>)
        /\ (sent # <<>> /\ sent[1] = Str(GreetingText)) =>
              /\ queries = 0
              /\ sent = <<Str(GreetingText)>>
              /\ pc = "TextPrompt"
        /\ pc = "actStep" => (sent = <<>> /\ result.k = "str")
        /\ (Waiting /\ pc # "empty") =>
              /\ pc = "TextPrompt"
              /\ Cardinality(GreetingPrompts) = 1
              /\ Len(sent) \in GreetingPrompts

\* C20: for the BookFlight intent the detail-collection dialog still runs
\* on the flight record, which has no type tag, and fills in the three
\* defaults; finalStep then calls messagefunc for no pair, replies
\* "Something is wrong" and restarts at the Greeting prompt.  A messagefunc
\* text is sent only for a record whose type is eligibility,
\* visa_information or procedure_auth.
C20_BookFlightSomethingWrong ==
    /\ (isConfigured /\ luisResult.topIntent = "BookFlight" /\ pc \in BookingSteps) =>
          entered.type = Undef
    /\ (isConfigured /\ luisResult.topIntent = "BookFlight" /\ Waiting) =>
          /\ pc = "TextPrompt"
          /\ entered.type = Undef
          /\ userinfo = Defaulted(entered)
          /\ mfArgs = <<>>
          /\ RepliedWith(Str(SomethingWrongText))
          /\ sent[Len(sent)] = Str(RestartText)
    /\ (Replied /\ mfArgs # <<>>) =>
          userinfo.type \in {Str(i) : i \in VisaIntents}

====
